---- MODULE Spec2Model ----
(***************************************************************************)
(* python_library_graph: the dependency resolver (grapher.py               *)
(* resolve_dependencies), the graph builder / node classifier / exporter   *)
(* (grapher.py generate_dependency_graph) and the command line entry point *)
(* (__main__.py main), as state machines.                                  *)
(*                                                                         *)
(* Spec         one run of generate_dependency_graph, called either by     *)
(*              main or directly with an arbitrary mapping.                *)
(* SpecResolve  one run of grapher.resolve_dependencies.                   *)
(*                                                                         *)
(* Python lists are sequences, dicts are functions, sets are sets.  The    *)
(* per-node output lists of the classification loop (node_color,           *)
(* node_info, node_size), which the code keeps in G.nodes() order, are     *)
(* kept as one function of the node.                                       *)
(***************************************************************************)
EXTENDS Integers, Sequences, FiniteSets, TLC

VARIABLES
    entry,            \* who called generate_dependency_graph: "main" | "api"
    pc,               \* position inside main / generate_dependency_graph
    project_name,     \* the root name
    output_prefix,    \* main's --output-prefix ("" for a direct call)
    html_filename,    \* arguments of generate_dependency_graph
    screenshot_filename,
    dep_data,         \* the mapping parent -> list of children
    G,                \* the DiGraph: [nodes |-> set, edges |-> (pair -> title)]
    top_level_deps,   \* the set built by the first pass
    community,        \* None or the imported module
    partition,        \* node -> community id
    colors,           \* the palette local: Unassigned or "Alphabet"
    node_attrs,       \* node -> [color, title, method, text, info, size]
    files,            \* file names written so far
    stdout,           \* lines printed to the standard stream
    stderr,           \* lines printed to the diagnostic stream
    exc,              \* the exception propagating out of the run, or None
    rpc,              \* position inside resolve_dependencies
    requirements_exists, \* os.path.exists('requirements.txt')
    pipreqs,          \* what subprocess.run did for pipreqs, or "not run" (history)
    pipdeptree,       \* what subprocess.run and json.loads did for pipdeptree (history)
    tree_list,        \* the parsed output of pipdeptree
    result,           \* what resolve_dependencies returned
    detection         \* how the community detection block ended (history)

vars == <<entry, pc, project_name, output_prefix, html_filename, screenshot_filename,
          dep_data, G, top_level_deps, community, partition, colors, node_attrs,
          files, stdout, stderr, exc, rpc, requirements_exists, pipreqs, pipdeptree,
          tree_list, result, detection>>

graphVars == <<entry, pc, project_name, output_prefix, html_filename,
               screenshot_filename, dep_data, G, top_level_deps, community,
               partition, colors, node_attrs, files, detection>>

resolveVars == <<rpc, requirements_exists, pipreqs, pipdeptree, tree_list, result>>

None == "None"
Unassigned == "<unassigned>"

(***************************************************************************)
(* Bounds of the enumerated inputs.                                        *)
(***************************************************************************)
\* total number of (parent, child) list items of an enumerated mapping
MaxEdges == 2
\* number of nodes an enumerated partial partition may leave without an entry
MaxMissing == 2
\* total number of objects (entries and their dependency objects) of an
\* enumerated pipdeptree tree list
MaxTreeLen == 4

(***************************************************************************)
(* Module constants of grapher.py.                                         *)
(***************************************************************************)
MOCK_DEPENDENCY_DATA ==
    ("python-library-graph" :> <<"pytest", "networkx", "plotly", "kaleido">>) @@
    ("pytest"    :> <<"iniconfig", "packaging">>) @@
    ("networkx"  :> <<"decorator">>) @@
    ("plotly"    :> <<"numpy", "tenacity">>) @@
    ("kaleido"   :> <<"svgwrite">>) @@
    ("iniconfig" :> <<>>) @@
    ("packaging" :> <<>>) @@
    ("decorator" :> <<>>) @@
    ("numpy"     :> <<>>) @@
    ("tenacity"  :> <<>>) @@
    ("svgwrite"  :> <<>>)

\* plotly.colors.qualitative.Alphabet, the palette bound to `colors`
Alphabet ==
    << "#AA0DFE", "#3283FE", "#85660D", "#782AB6", "#565656", "#1C8356",
       "#16FF32", "#F7E1A0", "#E2E2E2", "#1CBE4F", "#C4451C", "#DEA0FD",
       "#FE00FA", "#325A9B", "#FEAF16", "#F8A19F", "#90AD1C", "#F6222E",
       "#1CFFCE", "#2ED9FF", "#B10DA1", "#C075A6", "#FC1CBF", "#B00068",
       "#FBE426", "#FA0087" >>

RootColor == "#FFD700"
DirectColor == "#8A2BE2"
TransitiveColor == "#4169E1"

(***************************************************************************)
(* The first pass of generate_dependency_graph: graph and top_level_deps.  *)
(***************************************************************************)
\* the (parent, child) pairs the loops over dep_data.items() visit
MappingPairs(dd) ==
    UNION { { <<p, dd[p][i]>> : i \in 1..Len(dd[p]) } : p \in DOMAIN dd }

\* any(parent in sub_deps for sub_deps in dep_data.values())
is_transitive_dependency(parent, dd) ==
    \E k \in DOMAIN dd : \E i \in 1..Len(dd[k]) : dd[k][i] = parent

\* top_level_deps after the loop over dep_data.items()
TopLevelDeps(dd) ==
    { parent \in DOMAIN dd : ~is_transitive_dependency(parent, dd) }

\* G.add_edge(u, v, title=t): one edge per ordered pair, the last title wins
add_edge(edges, u, v, t) ==
    [ e \in (DOMAIN edges) \cup {<<u, v>>} |->
        IF e = <<u, v>> THEN t ELSE edges[e] ]

\* the edges after the first pass: one "depends on" edge per mapping pair
DependsOnEdges(dd) == [ e \in MappingPairs(dd) |-> "depends on" ]

RECURSIVE ConnectRootNoSelfCheck(_, _, _)
\* variant: the root is connected to every top-level key, itself included
ConnectRootNoSelfCheck(edges, root, deps) ==
    IF deps = {} THEN edges
    ELSE LET dep == CHOOSE d \in deps : TRUE
         IN  ConnectRootNoSelfCheck(add_edge(edges, root, dep, "direct requirement"),
                                    root, deps \ {dep})

RECURSIVE ConnectRoot(_, _, _)
\* for dep in top_level_deps: if dep != project_name: G.add_edge(project_name, dep, ...)
ConnectRoot(edges, root, deps) ==
    IF deps = {} THEN edges
    ELSE LET dep == CHOOSE d \in deps : TRUE
             next == IF dep # root
                     THEN add_edge(edges, root, dep, "direct requirement")
                     ELSE edges
         IN  ConnectRoot(next, root, deps \ {dep})

\* the nodes: add_node(parent), add_node(child), add_node(project_name)
GraphNodes(dd, root) ==
    (DOMAIN dd) \cup { e[2] : e \in MappingPairs(dd) } \cup {root}

BuildGraph(dd, root) ==
    [ nodes |-> GraphNodes(dd, root),
      edges |-> ConnectRoot(DependsOnEdges(dd), root, TopLevelDeps(dd)) ]

\* successors of a node in the built graph
Successors(g, n) == { e[2] : e \in { d \in DOMAIN g.edges : d[1] = n } }

(***************************************************************************)
(* The community detection block (lines 208-232).                          *)
(*                                                                         *)
(* A partition value is <<id>> for an integer community id and <<>> for    *)
(* None (max(...) + 1 then raises TypeError).                              *)
(***************************************************************************)
IsNumber(v) == Len(v) = 1

\* type(v).__name__
TypeName(v) == IF IsNumber(v) THEN "int" ELSE "NoneType"

\* does line 221 raise: max() of an empty sequence, or of values that are no numbers
CountRaises(part) ==
    \/ DOMAIN part = {}
    \/ \E n \in DOMAIN part : ~IsNumber(part[n])

\* str(e) of the ValueError max() raises on an empty partition.values()
EmptyMaxText == "max() arg is an empty sequence"

\* str(e) of the TypeError of `item > maxitem` inside max()
GtText(item, maxitem) ==
    "'>' not supported between instances of '" \o TypeName(item) \o "' and '"
        \o TypeName(maxitem) \o "'"

\* str(e) of the TypeError of `None + 1`
AddText == "unsupported operand type(s) for +: 'NoneType' and 'int'"

RECURSIVE MaxFrom(_, _, _)
\* the loop of max(): `maxitem` is the largest of vals[1..i-1]; an item that
\* cannot be compared with it raises
MaxFrom(vals, i, maxitem) ==
    IF i > Len(vals) THEN [ e |-> None, text |-> "", value |-> maxitem ]
    ELSE IF IsNumber(vals[i]) /\ IsNumber(maxitem)
    THEN MaxFrom(vals, i + 1, IF vals[i][1] > maxitem[1] THEN vals[i] ELSE maxitem)
    ELSE [ e |-> "TypeError", text |-> GtText(vals[i], maxitem), value |-> maxitem ]

\* line 221, max(partition.values()) + 1: `keys` lists the keys of the dict in
\* its iteration order; e is None and value the count, or e is the class of the
\* exception raised and text its str(e)
NumCommunities(part, keys) ==
    LET vals == [ i \in 1..Len(keys) |-> part[keys[i]] ]
    IN  IF Len(vals) = 0
        THEN [ e |-> "ValueError", text |-> EmptyMaxText, value |-> <<>> ]
        ELSE LET m == MaxFrom(vals, 2, vals[1])
             IN  IF m.e # None THEN m
                 ELSE IF ~IsNumber(m.value)
                 THEN [ e |-> "TypeError", text |-> AddText, value |-> m.value ]
                 ELSE [ e |-> None, text |-> "", value |-> <<m.value[1] + 1>> ]

WarnImport ==
    "WARNING: 'python-louvain' module failed to import. Falling back to Depth-based coloring."
\* `text` is str(e) of the exception caught
WarnDetection(text) ==
    "WARNING: Community detection failed (" \o text \o "). Falling back to Depth-based coloring."
InfoDetected(n) ==
    "INFO: Detected " \o ToString(n) \o " communities. Coloring nodes by community."

\* variant: the handlers print their warning and leave `community` as it is
HandlerKeepsCommunity(e, text, part) ==
    [ community |-> IF e \in {"ImportError", "AttributeError"} THEN None ELSE "module",
      partition |-> part, colors |-> Unassigned,
      log |-> <<IF e = "ImportError" THEN WarnImport ELSE WarnDetection(text)>>,
      exc |-> None ]

\* the handlers `except ImportError` and `except Exception`: the locals after a
\* caught exception of class `e` with str(e) = `text`, `part` being what partition
\* held when it was raised
Handler(e, text, part) ==
    [ community |-> None, partition |-> part, colors |-> Unassigned,
      log |-> <<IF e = "ImportError" THEN WarnImport ELSE WarnDetection(text)>>,
      exc |-> None ]

\* variant: only `except ImportError` is there, any other exception propagates
DetectCommunitiesImportOnly(found, imported, called, text, part, keys) ==
    IF ~found
    THEN [ community |-> None, partition |-> <<>>, colors |-> Unassigned,
           log |-> <<>>, exc |-> None ]
    ELSE IF imported = "ImportError" THEN Handler(imported, text, <<>>)
    ELSE IF imported # "ok"
    THEN [ community |-> None, partition |-> <<>>, colors |-> Unassigned,
           log |-> <<>>, exc |-> imported ]
    ELSE IF called # "ok"
    THEN [ community |-> "module", partition |-> <<>>, colors |-> Unassigned,
           log |-> <<>>, exc |-> called ]
    ELSE LET num_communities == NumCommunities(part, keys)
         IN  IF num_communities.e # None
             THEN [ community |-> "module", partition |-> part, colors |-> Unassigned,
                    log |-> <<>>, exc |-> num_communities.e ]
             ELSE [ community |-> "module", partition |-> part, colors |-> "Alphabet",
                    log |-> <<InfoDetected(num_communities.value[1])>>, exc |-> None ]

\* The whole block as a function of what the environment does:
\*   found     importlib.util.find_spec('community') is truthy
\*   imported  "ok", or the exception import_module raises
\*   called    "ok", or the exception best_partition raises
\*   text      str(e) of the exception import_module or best_partition raises
\*   part      the partition best_partition returns
\*   keys      the keys of that dict in its iteration order
DetectCommunities(found, imported, called, text, part, keys) ==
    IF ~found
    THEN [ community |-> None, partition |-> <<>>, colors |-> Unassigned,
           log |-> <<>>, exc |-> None ]
    ELSE IF imported # "ok" THEN Handler(imported, text, <<>>)
    ELSE IF called # "ok" THEN Handler(called, text, <<>>)
    ELSE LET num_communities == NumCommunities(part, keys)
         IN  IF num_communities.e # None
             THEN Handler(num_communities.e, num_communities.text, part)
             ELSE [ community |-> "module", partition |-> part, colors |-> "Alphabet",
                    log |-> <<InfoDetected(num_communities.value[1])>>, exc |-> None ]

\* the history value recorded for a run of the block
DetectionOutcome(found, imported, called, part) ==
    IF ~found THEN "not_installed"
    ELSE IF imported # "ok" THEN "import_raised"
    ELSE IF called # "ok" THEN "partition_raised"
    ELSE IF CountRaises(part) THEN "count_raised"
    ELSE "detected"

(***************************************************************************)
(* The classification loop (lines 235-275), one node.                      *)
(***************************************************************************)
\* variant: membership of top_level_deps is tested before the root
SizeDirectFirst(node, root, top) ==
    IF node \in top THEN 2 ELSE IF node = root THEN 3 ELSE 1

\* size = 3 if node == project_name else (2 if node in top_level_deps else 1)
Size(node, root, top) ==
    IF node = root THEN 3 ELSE IF node \in top THEN 2 ELSE 1

\* does the loop body read `colors` for this node while it is unbound
ReadsUnbound(node, root, comm, part, cols) ==
    node # root /\ comm # None /\ node \in DOMAIN part /\ cols = Unassigned

\* variant: the community branch is tried before the root branch
ClassifyCommunityFirst(node, root, comm, part, top) ==
    IF comm # None /\ node \in DOMAIN part
    THEN LET community_id == part[node][1]
             color_index == community_id % Len(Alphabet)
         IN  [ color |-> Alphabet[color_index + 1],
               title |-> "Community " \o ToString(community_id) \o ": " \o node,
               method |-> "Community" ]
    ELSE IF node = root
    THEN [ color |-> RootColor, title |-> "Root: " \o node,
           method |-> "Project Root" ]
    ELSE IF node \in top
    THEN [ color |-> DirectColor, title |-> "Direct Dep: " \o node,
           method |-> "Depth (Fallback)" ]
    ELSE [ color |-> TransitiveColor, title |-> "Transitive Dep: " \o node,
           method |-> "Depth (Fallback)" ]

\* variant: the palette is indexed by the id without the modulo, clamped to its end
ClassifyNoModulo(node, root, comm, part, top) ==
    IF node = root
    THEN [ color |-> RootColor, title |-> "Root: " \o node,
           method |-> "Project Root" ]
    ELSE IF comm # None /\ node \in DOMAIN part
    THEN LET community_id == part[node][1]
             color_index == IF community_id < Len(Alphabet)
                            THEN community_id ELSE Len(Alphabet) - 1
         IN  [ color |-> Alphabet[color_index + 1],
               title |-> "Community " \o ToString(community_id) \o ": " \o node,
               method |-> "Community" ]
    ELSE IF node \in top
    THEN [ color |-> DirectColor, title |-> "Direct Dep: " \o node,
           method |-> "Depth (Fallback)" ]
    ELSE [ color |-> TransitiveColor, title |-> "Transitive Dep: " \o node,
           method |-> "Depth (Fallback)" ]

\* variant: both fallback tiers use the one colour test_cli.py lists for them
ClassifyOneFallbackColor(node, root, comm, part, top) ==
    IF node = root
    THEN [ color |-> RootColor, title |-> "Root: " \o node,
           method |-> "Project Root" ]
    ELSE IF comm # None /\ node \in DOMAIN part
    THEN LET community_id == part[node][1]
             color_index == community_id % Len(Alphabet)
         IN  [ color |-> Alphabet[color_index + 1],
               title |-> "Community " \o ToString(community_id) \o ": " \o node,
               method |-> "Community" ]
    ELSE IF node \in top
    THEN [ color |-> TransitiveColor, title |-> "Direct Dep: " \o node,
           method |-> "Depth (Fallback)" ]
    ELSE [ color |-> TransitiveColor, title |-> "Transitive Dep: " \o node,
           method |-> "Depth (Fallback)" ]

\* variant: once a partition is in use, a node without an entry skips the
\* top_level_deps test
ClassifyPartitionOrTransitive(node, root, comm, part, top) ==
    IF node = root
    THEN [ color |-> RootColor, title |-> "Root: " \o node,
           method |-> "Project Root" ]
    ELSE IF comm # None /\ node \in DOMAIN part
    THEN LET community_id == part[node][1]
             color_index == community_id % Len(Alphabet)
         IN  [ color |-> Alphabet[color_index + 1],
               title |-> "Community " \o ToString(community_id) \o ": " \o node,
               method |-> "Community" ]
    ELSE IF comm = None /\ node \in top
    THEN [ color |-> DirectColor, title |-> "Direct Dep: " \o node,
           method |-> "Depth (Fallback)" ]
    ELSE [ color |-> TransitiveColor, title |-> "Transitive Dep: " \o node,
           method |-> "Depth (Fallback)" ]

\* color, title and current_coloring_method of one pass of the loop body
Classify(node, root, comm, part, top) ==
    IF node = root
    THEN [ color |-> RootColor, title |-> "Root: " \o node,
           method |-> "Project Root" ]
    ELSE IF comm # None /\ node \in DOMAIN part
    THEN LET community_id == part[node][1]
             color_index == community_id % Len(Alphabet)
         IN  [ color |-> Alphabet[color_index + 1],
               title |-> "Community " \o ToString(community_id) \o ": " \o node,
               method |-> "Community" ]
    ELSE IF node \in top
    THEN [ color |-> DirectColor, title |-> "Direct Dep: " \o node,
           method |-> "Depth (Fallback)" ]
    ELSE [ color |-> TransitiveColor, title |-> "Transitive Dep: " \o node,
           method |-> "Depth (Fallback)" ]

\* f"{node}<br>{title}<br>Coloring Method: {current_coloring_method}"
NodeInfo(node, a) ==
    node \o "<br>" \o a.title \o "<br>Coloring Method: " \o a.method

\* what lines 271-275 append for the node
NodeRecord(node, root, comm, part, top) ==
    LET a == Classify(node, root, comm, part, top)
    IN  [ color |-> a.color, title |-> a.title, method |-> a.method,
          text |-> "<b>" \o node \o "</b>", info |-> NodeInfo(node, a),
          size |-> Size(node, root, top) * 10 ]

(***************************************************************************)
(* Inputs of a run of generate_dependency_graph.                           *)
(***************************************************************************)
Pkgs == {"proj", "x", "y"}
ApiRoots == {"proj", "app"}
MainProjectNames == {"python-library-graph", "test-project-root", "pytest"}
OutputPrefixes == {"dependency_graph", "report"}

\* lists of at most n package names
RECURSIVE Lists(_)
Lists(n) ==
    IF n = 0 THEN {<<>>}
    ELSE Lists(n - 1) \cup
         { Append(l, c) : l \in { m \in Lists(n - 1) : Len(m) = n - 1 }, c \in Pkgs }

RECURSIVE TotalLen(_)
TotalLen(dd) ==
    IF DOMAIN dd = {} THEN 0
    ELSE LET k == CHOOSE m \in DOMAIN dd : TRUE
         IN  Len(dd[k]) + TotalLen([ j \in (DOMAIN dd) \ {k} |-> dd[j] ])

\* every mapping over Pkgs with at most MaxEdges list items in all
Mappings ==
    { dd \in UNION { [ K -> Lists(MaxEdges) ] : K \in SUBSET Pkgs } :
        TotalLen(dd) <= MaxEdges }

\* the mapping of the DirectSet example, analysed under the name "root_pkg"
RootPkgMapping ==
    ("root_pkg" :> <<"a", "b">>) @@ ("a" :> <<"c">>) @@ ("b" :> <<>>)

\* the mapping of the end-to-end scenario, analysed under the name "proj"
ProjMapping ==
    ("proj" :> <<"x">>) @@ ("x" :> <<"y">>) @@ ("y" :> <<>>)

\* the (mapping, root) pairs of a direct call
ApiInputs ==
    { <<dd, r>> : dd \in Mappings \cup {ProjMapping}, r \in ApiRoots } \cup
    { <<RootPkgMapping, "root_pkg">>, <<MOCK_DEPENDENCY_DATA, "test-project-root">> }

\* test_cli.py MOCK_COMMUNITY_PARTITION_SUCCESS
MOCK_COMMUNITY_PARTITION_SUCCESS ==
    ("python-library-graph" :> 0) @@ ("pytest" :> 1) @@ ("networkx" :> 2) @@
    ("plotly" :> 1) @@ ("kaleido" :> 2) @@ ("iniconfig" :> 1) @@
    ("packaging" :> 1) @@ ("decorator" :> 2) @@ ("numpy" :> 1) @@
    ("tenacity" :> 1) @@ ("svgwrite" :> 2)

\* community ids the enumerated partitions give the other names; two of them are
\* Len(Alphabet) apart, so that distinct ids share a palette entry
OtherIds ==
    ("proj" :> 0) @@ ("app" :> 0) @@ ("x" :> 1) @@ ("y" :> 27) @@
    ("root_pkg" :> 0) @@ ("a" :> 27) @@ ("b" :> 1) @@ ("c" :> 1) @@
    ("test-project-root" :> 26)

Schemes == {"one", "several", "not a number"}

\* the value scheme s gives node n
SchemeValue(s, n) ==
    CASE s = "one" -> <<0>>
      [] s = "several" ->
            IF n \in DOMAIN MOCK_COMMUNITY_PARTITION_SUCCESS
            THEN <<MOCK_COMMUNITY_PARTITION_SUCCESS[n]>> ELSE <<OtherIds[n]>>
      [] OTHER ->
            IF n \in {"y", "c", "decorator"} THEN <<>>
            ELSE IF n \in DOMAIN MOCK_COMMUNITY_PARTITION_SUCCESS
            THEN <<MOCK_COMMUNITY_PARTITION_SUCCESS[n]>> ELSE <<OtherIds[n]>>

\* the partitions best_partition is taken to return for a graph with these nodes:
\* an entry for every node, for all but at most MaxMissing nodes, or for none
Partitions(nodes) ==
    { [ n \in D |-> SchemeValue(s, n) ] :
        D \in {{}} \cup { nodes \ M : M \in { K \in SUBSET nodes : Cardinality(K) <= MaxMissing } },
        s \in Schemes }

ImportExceptions == {"ImportError", "AttributeError"}
PartitionExceptions == {"RuntimeError"}
\* str(e) of the exceptions import_module and best_partition raise
DetectionTexts ==
    {"module 'community' has no attribute 'best_partition'",
     "Bad graph type, use only non directed graph"}

RECURSIVE SetToSeq(_)
\* the elements of a set in one fixed order
SetToSeq(S) ==
    IF S = {} THEN <<>>
    ELSE LET x == CHOOSE y \in S : TRUE IN <<x>> \o SetToSeq(S \ {x})

\* the iteration orders best_partition's dict is taken to have: any two of its
\* keys first, the others behind them
KeyOrders(part) ==
    LET D == DOMAIN part
    IN  IF Cardinality(D) < 2 THEN {SetToSeq(D)}
        ELSE UNION { { <<a, b>> \o SetToSeq(D \ {a, b}) : b \in D \ {a} } : a \in D }

\* str(e) of the exceptions fig.write_image raises
ScreenshotTexts ==
    {"Failed to start Kaleido subprocess",
     "Image export using the kaleido engine requires the kaleido package"}

(***************************************************************************)
(* Initial states: main has parsed its options; a direct caller has chosen *)
(* its arguments.                                                          *)
(***************************************************************************)
IdleResolve ==
    /\ rpc = "idle"
    /\ requirements_exists = FALSE
    /\ pipreqs = "not run"
    /\ pipdeptree = "not run"
    /\ tree_list = <<>>
    /\ result = <<>>

InitLocals ==
    /\ G = [ nodes |-> {}, edges |-> <<>> ]
    /\ top_level_deps = {}
    /\ community = None
    /\ partition = <<>>
    /\ colors = Unassigned
    /\ node_attrs = <<>>
    /\ detection = "pending"
    /\ files = {}
    /\ stdout = <<>>
    /\ stderr = <<>>
    /\ exc = None

InitMain ==
    /\ entry = "main"
    /\ pc = "main"
    /\ project_name \in MainProjectNames
    /\ output_prefix \in OutputPrefixes
    /\ html_filename = None
    /\ screenshot_filename = None
    /\ dep_data = <<>>

InitApi ==
    /\ entry = "api"
    /\ pc = "build"
    /\ \E in \in ApiInputs : dep_data = in[1] /\ project_name = in[2]
    /\ output_prefix = ""
    /\ html_filename = "graph.html"
    /\ screenshot_filename = "graph.png"

Init == (InitMain \/ InitApi) /\ InitLocals /\ IdleResolve

(***************************************************************************)
(* __main__.py                                                             *)
(***************************************************************************)
\* variant: main resolves through the tree tool, which lists proj -> x -> y
main_resolve_dependencies_tool ==
    [ value |-> ProjMapping, log |-> <<>> ]

\* __main__.resolve_dependencies (lines 6-9)
main_resolve_dependencies ==
    [ value |-> MOCK_DEPENDENCY_DATA,
      log |-> <<"--- WARNING: Using MOCK Dependency Data ---">> ]

\* main, lines 30-43: the file names, the mapping, the call
MainCall ==
    /\ entry = "main" /\ pc = "main"
    /\ html_filename' = output_prefix \o ".html"
    /\ screenshot_filename' = output_prefix \o "_preview.png"
    /\ dep_data' = main_resolve_dependencies.value
    /\ stderr' = stderr \o main_resolve_dependencies.log
    /\ pc' = "build"
    /\ UNCHANGED <<entry, project_name, output_prefix, G, top_level_deps, community,
                   partition, colors, node_attrs, files, stdout, exc, detection>>
    /\ UNCHANGED resolveVars

\* main, lines 45-49, reached when generate_dependency_graph returned
MainReport ==
    /\ entry = "main" /\ pc = "returned"
    /\ stdout' = stdout \o
         << "", "----------------------------------------------------",
            "Results are ready:",
            "  - Interactive Graph: " \o html_filename,
            "  - Static Preview:    " \o screenshot_filename,
            "----------------------------------------------------" >>
    /\ pc' = "exit"
    /\ UNCHANGED <<entry, project_name, output_prefix, html_filename,
                   screenshot_filename, dep_data, G, top_level_deps, community,
                   partition, colors, node_attrs, files, stderr, exc, detection>>
    /\ UNCHANGED resolveVars

(***************************************************************************)
(* generate_dependency_graph                                               *)
(***************************************************************************)
\* lines 120-140
Build ==
    /\ pc = "build"
    /\ G' = BuildGraph(dep_data, project_name)
    /\ top_level_deps' = TopLevelDeps(dep_data)
    /\ pc' = "detect"
    /\ UNCHANGED <<entry, project_name, output_prefix, html_filename,
                   screenshot_filename, dep_data, community, partition, colors,
                   node_attrs, files, stdout, stderr, exc, detection>>
    /\ UNCHANGED resolveVars

\* lines 208-232, for one behaviour of find_spec, import_module and best_partition
Detect ==
    /\ pc = "detect"
    /\ \E found \in BOOLEAN, imported \in {"ok"} \cup ImportExceptions,
          called \in {"ok"} \cup PartitionExceptions, text \in {""} \cup DetectionTexts,
          part \in Partitions(G.nodes) :
          \* what is never reached is fixed, so that each behaviour is taken once
          /\ ~found => imported = "ok"
          /\ imported # "ok" => called = "ok"
          /\ (~found \/ imported # "ok" \/ called # "ok") => part = <<>>
          /\ text # "" <=> (imported \notin {"ok", "ImportError"} \/ called # "ok")
          /\ \E keys \in KeyOrders(part) :
             \* the order is read only by a max() that raises
             /\ ~CountRaises(part) => keys = SetToSeq(DOMAIN part)
             /\ LET d == DetectCommunities(found, imported, called, text, part, keys)
                IN  /\ community' = d.community
                    /\ partition' = d.partition
                    /\ colors' = d.colors
                    /\ stderr' = stderr \o d.log
                    /\ exc' = d.exc
                    /\ pc' = IF d.exc = None THEN "classify" ELSE "raised"
          /\ detection' = DetectionOutcome(found, imported, called, part)
    /\ UNCHANGED <<entry, project_name, output_prefix, html_filename,
                   screenshot_filename, dep_data, G, top_level_deps, node_attrs,
                   files, stdout>>
    /\ UNCHANGED resolveVars

\* lines 235-275
ClassifyNodes ==
    /\ pc = "classify"
    /\ IF \E n \in G.nodes : ReadsUnbound(n, project_name, community, partition, colors)
       THEN /\ exc' = "UnboundLocalError"
            /\ pc' = "raised"
            /\ UNCHANGED node_attrs
       ELSE /\ node_attrs' =
                 [ n \in G.nodes |->
                     NodeRecord(n, project_name, community, partition, top_level_deps) ]
            /\ pc' = "html"
            /\ UNCHANGED exc
    /\ UNCHANGED <<entry, project_name, output_prefix, html_filename,
                   screenshot_filename, dep_data, G, top_level_deps, community,
                   partition, colors, files, stdout, stderr, detection>>
    /\ UNCHANGED resolveVars

\* lines 321-324: fig.write_html is called outside any try
WriteHtml ==
    /\ pc = "html"
    /\ \E outcome \in {"ok", "OSError"} :
          IF outcome = "ok"
          THEN /\ files' = files \cup {html_filename}
               /\ stdout' = Append(stdout, "Interactive 3D graph saved to: " \o html_filename)
               /\ pc' = "image"
               /\ UNCHANGED exc
          ELSE /\ exc' = outcome
               /\ pc' = "raised"
               /\ UNCHANGED <<files, stdout>>
    /\ UNCHANGED <<entry, project_name, output_prefix, html_filename,
                   screenshot_filename, dep_data, G, top_level_deps, community,
                   partition, colors, node_attrs, stderr, detection>>
    /\ UNCHANGED resolveVars

\* `text` is str(e) of the exception caught
WarnScreenshot(text) ==
    "WARNING: Could not generate screenshot using kaleido. Please ensure 'pip install kaleido' is run. Error: " \o text

\* variant: fig.write_image is called outside any try
ExportImageUncaught(outcome, text, fs, out, err, shot) ==
    IF outcome = "ok"
    THEN [ files |-> fs \cup {shot},
           stdout |-> out \o << "Capturing static preview using kaleido...",
                                "Static preview saved to: " \o shot >>,
           stderr |-> err, exc |-> None ]
    ELSE [ files |-> fs,
           stdout |-> Append(out, "Capturing static preview using kaleido..."),
           stderr |-> err, exc |-> outcome ]

\* the effect of lines 326-340 for one outcome of fig.write_image
ExportImage(outcome, text, fs, out, err, shot) ==
    IF outcome = "ok"
    THEN [ files |-> fs \cup {shot},
           stdout |-> out \o << "Capturing static preview using kaleido...",
                                "Static preview saved to: " \o shot >>,
           stderr |-> err, exc |-> None ]
    ELSE [ files |-> fs,
           stdout |-> Append(out, "Capturing static preview using kaleido..."),
           stderr |-> Append(err, WarnScreenshot(text)), exc |-> None ]

\* lines 326-340
WriteImage ==
    /\ pc = "image"
    /\ \E outcome \in {"ok", "ValueError"}, text \in {""} \cup ScreenshotTexts :
          /\ text # "" <=> outcome # "ok"
          /\ LET r == ExportImage(outcome, text, files, stdout, stderr, screenshot_filename)
             IN  /\ files' = r.files
                 /\ stdout' = r.stdout
                 /\ stderr' = r.stderr
                 /\ exc' = r.exc
                 /\ pc' = IF r.exc = None THEN "returned" ELSE "raised"
    /\ UNCHANGED <<entry, project_name, output_prefix, html_filename,
                   screenshot_filename, dep_data, G, top_level_deps, community,
                   partition, colors, node_attrs, detection>>
    /\ UNCHANGED resolveVars

Next == MainCall \/ Build \/ Detect \/ ClassifyNodes \/ WriteHtml \/ WriteImage \/ MainReport

Spec == Init /\ [][Next]_vars

(***************************************************************************)
(* grapher.resolve_dependencies (lines 44-111).                            *)
(*                                                                         *)
(* The parsed output of `pipdeptree --json` is a list of entries           *)
(* [package |-> p, dependencies |-> <<d, ...>>]: p is the package key, or  *)
(* NoKey when the entry has no package key, or NullPackage when its        *)
(* "package" is null; d is a dependency's key, or NoKey.                   *)
(***************************************************************************)
NoKey == "<no key>"
NullPackage == "<null>"

PackageKeys == {"pkg1", "depA"}
DependencyKeys == {"depA", "depB"}

\* lists of at most n dependency objects
RECURSIVE DepLists(_)
DepLists(n) ==
    IF n = 0 THEN {<<>>}
    ELSE {<<>>} \cup
         { <<d>> \o l : d \in DependencyKeys \cup {NoKey}, l \in DepLists(n - 1) }

\* tree lists of at most n objects (entries and their dependency objects) in all
RECURSIVE TreeLists(_)
TreeLists(n) ==
    IF n = 0 THEN {<<>>}
    ELSE {<<>>} \cup
         UNION { { <<[package |-> p, dependencies |-> ds]>> \o rest :
                     p \in PackageKeys \cup {NoKey, NullPackage},
                     rest \in TreeLists(n - 1 - Len(ds)) } :
                 ds \in DepLists(n - 1) }

\* variant: the comprehension has no `if dep.get('key')`
DependencyKeysOfNoFilter(ds) == ds

\* [dep.get('key') for dep in package_info.get('dependencies', []) if dep.get('key')]
RECURSIVE DependencyKeysOf(_)
DependencyKeysOf(ds) ==
    IF ds = <<>> THEN <<>>
    ELSE IF Head(ds) # NoKey THEN <<Head(ds)>> \o DependencyKeysOf(Tail(ds))
    ELSE DependencyKeysOf(Tail(ds))

RECURSIVE Transform(_, _)
\* lines 86-94: the loop over the tree list, dependency_map being the dict so far
Transform(entries, dependency_map) ==
    IF entries = <<>> THEN dependency_map
    ELSE LET package_info == Head(entries)
             package_name == package_info.package
         IN  IF package_name # NoKey
             THEN Transform(Tail(entries),
                    [ k \in (DOMAIN dependency_map) \cup {package_name} |->
                        IF k = package_name
                        THEN DependencyKeysOf(package_info.dependencies)
                        ELSE dependency_map[k] ])
             ELSE Transform(Tail(entries), dependency_map)

\* does the loop raise: None.get(...) on an entry whose "package" is null
TransformRaises(entries) ==
    \E i \in 1..Len(entries) : entries[i].package = NullPackage

PipreqsOutcomes == {"ok", "CalledProcessError", "FileNotFoundError", "Exception"}
PipdeptreeOutcomes == {"ok", "CalledProcessError", "FileNotFoundError", "Exception"}

\* what a failed subprocess left in e.stderr (capture_output=True, text=True)
StderrTexts == {"", "No module named pipreqs", "No module named pipdeptree"}
\* str(e) of the other exceptions subprocess.run raises
ExceptionTexts == {"Failed to run pipdeptree", "[Errno 13] Permission denied"}
\* str(e) of the JSONDecodeError json.loads raises on an output that is no JSON
JSONDecodeText == "Expecting value: line 1 column 1 (char 0)"
\* str(e) of the AttributeError of None.get('key')
NoneGetText == "'NoneType' object has no attribute 'get'"

\* lines 55-69: the effect of the pipreqs step; `exists` is os.path.exists(...),
\* `outcome` what subprocess.run does, `text` the e.stderr of a CalledProcessError
PipreqsStep(exists, outcome, text) ==
    IF exists THEN [ log |-> <<>>, exc |-> None ]
    ELSE LET info == "INFO: 'requirements.txt' not found. Generating using pipreqs..."
         IN CASE outcome = "ok" ->
                   [ log |-> <<info, "INFO: Successfully generated 'requirements.txt'.">>,
                     exc |-> None ]
              [] outcome = "CalledProcessError" ->
                   [ log |-> <<info, "WARNING: Failed to run pipreqs. Please ensure 'pip install pipreqs' is run. Details: " \o text>>,
                     exc |-> None ]
              [] outcome = "FileNotFoundError" ->
                   [ log |-> <<info, "WARNING: 'pipreqs' command not found. Please install it with 'pip install pipreqs'.">>,
                     exc |-> None ]
              [] OTHER -> [ log |-> <<info>>, exc |-> outcome ]

FallBack == "--- FALLING BACK TO MOCK DATA ---"

\* lines 72-111: the effect of the pipdeptree step; `outcome` is what subprocess.run
\* does, `text` the e.stderr of a CalledProcessError or the str(e) of another
\* exception of subprocess.run or json.loads, `json` whether result.stdout is JSON,
\* `out` result.stdout parsed
PipdeptreeStep(outcome, text, json, out) ==
    CASE outcome = "CalledProcessError" ->
           [ value |-> MOCK_DEPENDENCY_DATA,
             log |-> <<"ERROR: Failed to run pipdeptree. Make sure 'pip install pipdeptree' is run. Details: " \o text, FallBack>> ]
      [] outcome # "ok" ->
           [ value |-> MOCK_DEPENDENCY_DATA,
             log |-> <<"ERROR during dependency resolution: " \o text, FallBack>> ]
      [] ~json ->
           [ value |-> MOCK_DEPENDENCY_DATA,
             log |-> <<"ERROR during dependency resolution: " \o text, FallBack>> ]
      [] TransformRaises(out) ->
           [ value |-> MOCK_DEPENDENCY_DATA,
             log |-> <<"ERROR during dependency resolution: " \o NoneGetText, FallBack>> ]
      [] OTHER -> [ value |-> Transform(out, <<>>), log |-> <<>> ]

IdleGraph ==
    /\ entry = "resolve"
    /\ pc = "idle"
    /\ project_name = None
    /\ output_prefix = ""
    /\ html_filename = None
    /\ screenshot_filename = None
    /\ dep_data = <<>>

InitResolve ==
    /\ IdleGraph /\ InitLocals
    /\ rpc = "pipreqs"
    /\ requirements_exists \in BOOLEAN
    /\ pipreqs = "not run"
    /\ pipdeptree = "not run"
    /\ tree_list = <<>>
    /\ result = <<>>

\* lines 52-69
Pipreqs ==
    /\ rpc = "pipreqs"
    /\ \E outcome \in PipreqsOutcomes, text \in StderrTexts :
          /\ requirements_exists => outcome = "ok"
          \* what is never read is fixed, so that each behaviour is taken once
          /\ (requirements_exists \/ outcome # "CalledProcessError") => text = ""
          /\ LET r == PipreqsStep(requirements_exists, outcome, text)
             IN  /\ stderr' = stderr \o r.log
                 /\ exc' = r.exc
                 /\ rpc' = IF r.exc = None THEN "pipdeptree" ELSE "raised"
          /\ pipreqs' = IF requirements_exists THEN "not run" ELSE outcome
    /\ UNCHANGED <<requirements_exists, pipdeptree, tree_list, result, stdout>>
    /\ UNCHANGED graphVars

\* lines 72-111
Pipdeptree ==
    /\ rpc = "pipdeptree"
    /\ \E outcome \in PipdeptreeOutcomes, json \in BOOLEAN, out \in TreeLists(MaxTreeLen),
          text \in StderrTexts \cup ExceptionTexts \cup {JSONDecodeText} :
          \* what is never read is fixed, so that each behaviour is taken once
          /\ outcome # "ok" => json
          /\ (outcome # "ok" \/ ~json) => out = <<>>
          /\ outcome = "CalledProcessError" => text \in StderrTexts
          /\ outcome \in {"FileNotFoundError", "Exception"} => text \in ExceptionTexts
          /\ (outcome = "ok" /\ ~json) => text = JSONDecodeText
          /\ (outcome = "ok" /\ json) => text = ""
          /\ LET r == PipdeptreeStep(outcome, text, json, out)
             IN  /\ result' = r.value
                 /\ stderr' = stderr \o r.log
          /\ pipdeptree' = IF outcome = "ok" /\ ~json THEN "JSONDecodeError" ELSE outcome
          /\ tree_list' = out
    /\ rpc' = "returned"
    /\ UNCHANGED <<requirements_exists, pipreqs, stdout, exc>>
    /\ UNCHANGED graphVars

NextResolve == Pipreqs \/ Pipdeptree

SpecResolve == InitResolve /\ [][NextResolve]_vars

(***************************************************************************)
(* Properties.                                                             *)
(***************************************************************************)
\* the first pass is over: G and top_level_deps are final
Built == pc \in {"detect", "classify", "html", "image", "returned", "exit", "raised"}

\* the detection block is over
Detected == detection # "pending"

\* the classification loop has run to its end
Classified == DOMAIN node_attrs # {}

NonRoot == G.nodes \ {project_name}

\* the children the mapping lists
Children(dd) == { c \in UNION { { dd[k][i] : i \in 1..Len(dd[k]) } : k \in DOMAIN dd } : TRUE }

\* the children the mapping entry of `name` lists
ChildrenOf(dd, name) ==
    IF name \in DOMAIN dd THEN { dd[name][i] : i \in 1..Len(dd[name]) } ELSE {}

Lines(stream) == { stream[i] : i \in 1..Len(stream) }

AllTags == {"ProjectRoot", "Community", "DirectDependency", "TransitiveDependency"}

\* does the title and coloring method recorded for node n carry tag t
HasTag(n, t) ==
    LET a == node_attrs[n]
    IN  CASE t = "ProjectRoot" ->
               a.method = "Project Root" /\ a.title = "Root: " \o n
          [] t = "Community" ->
               /\ a.method = "Community"
               /\ \E id \in 0..(2 * Len(Alphabet)) :
                     a.title = "Community " \o ToString(id) \o ": " \o n
          [] t = "DirectDependency" ->
               a.method = "Depth (Fallback)" /\ a.title = "Direct Dep: " \o n
          [] OTHER ->
               a.method = "Depth (Fallback)" /\ a.title = "Transitive Dep: " \o n

TagsOf(n) == { t \in AllTags : HasTag(n, t) }

\* C1: after the graph-build step top_level_deps is exactly the set of nodes with
\* an edge from the root; for {"root_pkg":["a","b"], "a":["c"], "b":[]} analysed
\* as "root_pkg" it is {"a","b"}.
C1_DirectSetIsRootSuccessors ==
    Built =>
      /\ top_level_deps = Successors(G, project_name)
      /\ (dep_data = RootPkgMapping /\ project_name = "root_pkg")
            => top_level_deps = {"a", "b"}

\* C2: every node of the graph gets exactly one tag, one colour and one title, and
\* the ProjectRoot tag with the colour '#FFD700' exactly when it is the root, with
\* or without a partition and with or without a partition entry for the root.
C2_OneTagRootIffRoot ==
    Classified =>
      /\ DOMAIN node_attrs = G.nodes
      /\ \A n \in G.nodes :
            /\ Cardinality(TagsOf(n)) = 1
            /\ HasTag(n, "ProjectRoot") <=> n = project_name
            /\ node_attrs[n].color = "#FFD700" <=> n = project_name

\* the root has a partition entry, the partition is in use, and the root is gold
C2_Witness ==
    /\ Classified
    /\ community # None
    /\ project_name \in DOMAIN partition
    /\ NonRoot # {}
    /\ node_attrs[project_name].color = "#FFD700"

\* C3: when detection succeeded and the partition has an entry for every node,
\* every non-root node is tagged Community with title "Community {id}: {node}" and
\* colour palette[id mod palette_size], and equal ids give equal colours.
C3_CommunityColouring ==
    (Classified /\ detection = "detected" /\ DOMAIN partition = G.nodes) =>
      /\ \A n \in NonRoot :
            /\ TagsOf(n) = {"Community"}
            /\ node_attrs[n].title =
                 "Community " \o ToString(partition[n][1]) \o ": " \o n
            /\ node_attrs[n].color = Alphabet[(partition[n][1] % Len(Alphabet)) + 1]
      /\ \A n, m \in NonRoot :
            partition[n] = partition[m] => node_attrs[n].color = node_attrs[m].color

\* two non-root nodes whose ids differ by the palette size
C3_Witness ==
    /\ Classified /\ detection = "detected" /\ DOMAIN partition = G.nodes
    /\ \E n, m \in NonRoot :
          /\ partition[n][1] >= Len(Alphabet)
          /\ partition[m][1] = partition[n][1] - Len(Alphabet)
          /\ node_attrs[n].color = node_attrs[m].color
          /\ node_attrs[n].title # node_attrs[m].title

\* C4: with no partition in use every non-root node is DirectDependency when it is
\* in top_level_deps and TransitiveDependency otherwise; the nodes of one tier
\* share a colour, the two tiers differ in colour, and the hover text names the
\* method "Depth (Fallback)".
C4_FallbackTiers ==
    (Classified /\ community = None) =>
      /\ \A n \in NonRoot :
            /\ TagsOf(n) = IF n \in top_level_deps
                           THEN {"DirectDependency"} ELSE {"TransitiveDependency"}
            /\ node_attrs[n].info =
                 n \o "<br>" \o node_attrs[n].title \o "<br>Coloring Method: Depth (Fallback)"
      /\ \A n, m \in NonRoot :
            (node_attrs[n].color = node_attrs[m].color)
               <=> (n \in top_level_deps <=> m \in top_level_deps)

\* a fallback run with a node in each tier
C4_Witness ==
    /\ Classified /\ community = None
    /\ \E n, m \in NonRoot :
          /\ n \in top_level_deps /\ m \notin top_level_deps
          /\ HasTag(n, "DirectDependency") /\ HasTag(m, "TransitiveDependency")

\* C5: in fallback mode a package the analysed project's own mapping entry lists
\* is "Direct Dep", and one reached only through another package is "Transitive
\* Dep"; for {"proj":["x"], "x":["y"], "y":[]} analysed as "proj", x is direct and
\* y transitive; for MOCK_DEPENDENCY_DATA pytest is direct, decorator transitive.
C5_ListedByProjectIsDirect ==
    (Classified /\ community = None) =>
      /\ \A n \in NonRoot :
            /\ n \in ChildrenOf(dep_data, project_name)
                  => node_attrs[n].title = "Direct Dep: " \o n
            /\ (n \in Children(dep_data) /\ n \notin ChildrenOf(dep_data, project_name))
                  => node_attrs[n].title = "Transitive Dep: " \o n
      /\ (dep_data = ProjMapping /\ project_name = "proj") =>
            /\ HasTag("x", "DirectDependency")
            /\ HasTag("y", "TransitiveDependency")
            /\ HasTag("proj", "ProjectRoot")
      /\ dep_data = MOCK_DEPENDENCY_DATA =>
            /\ node_attrs["pytest"].title = "Direct Dep: pytest"
            /\ node_attrs["decorator"].title = "Transitive Dep: decorator"

\* some step of resolve_dependencies failed
StepFailed ==
    \/ pipreqs \notin {"not run", "ok"}
    \/ pipdeptree \notin {"not run", "ok"}
    \/ (pipdeptree = "ok" /\ TransformRaises(tree_list))

\* C6: resolve_dependencies never raises, whatever requirements.txt, pipreqs and
\* pipdeptree do, and returns exactly MOCK_DEPENDENCY_DATA whenever a step failed.
C6_ResolveNeverRaises ==
    /\ rpc # "raised"
    /\ exc = None
    /\ (rpc = "returned" /\ StepFailed) => result = MOCK_DEPENDENCY_DATA

DetectionFailures == {"not_installed", "import_raised", "partition_raised"}

\* C7: when the detector is not installed, or importing it or calling
\* best_partition raises, the run does not raise because of it, goes on, has
\* community colouring off and tags every non-root node by the fallback tiers only.
C7_DetectionFailureDegrades ==
    detection \in DetectionFailures =>
      /\ exc \in {None, "OSError"}
      /\ pc = "raised" => (exc = "OSError" /\ Classified)
      /\ community = None
      /\ Classified =>
            \A n \in NonRoot :
               /\ TagsOf(n) \subseteq {"DirectDependency", "TransitiveDependency"}
               /\ TagsOf(n) # {}

\* best_partition raised something that is no ImportError, and the run returned
C7_Witness ==
    /\ detection = "partition_raised"
    /\ pc = "returned"
    /\ NonRoot # {}
    /\ \A n \in NonRoot : node_attrs[n].method = "Depth (Fallback)"

\* the lines that report the fall back to depth-based colouring
DegradedLines ==
    {WarnImport} \cup
    { WarnDetection(text) :
        text \in DetectionTexts \cup {EmptyMaxText, AddText}
                 \cup { GtText(a, b) : a, b \in {<<0>>, <<>>} } }

\* C8: every run that ends up with fallback-only colouring has a line on the
\* diagnostic stream saying so, for a detector that is not installed as for one
\* whose import or call raises.
C8_DegradedModeIsReported ==
    (Detected /\ community = None) => Lines(stderr) \cap DegradedLines # {}

ImageAttempted ==
    "Capturing static preview using kaleido..." \in Lines(stdout)

ImageFailed == \E text \in ScreenshotTexts : WarnScreenshot(text) \in Lines(stderr)

ReportPrinted ==
    /\ "Results are ready:" \in Lines(stdout)
    /\ ("  - Interactive Graph: " \o html_filename) \in Lines(stdout)
    /\ ("  - Static Preview:    " \o screenshot_filename) \in Lines(stdout)

\* C9: the HTML document is written before the image export is attempted; a
\* failing image export is caught and reported as a warning, does not propagate
\* and leaves the HTML document in place, and main still prints its report; a
\* failing HTML write is not caught and ends the run before the image export.
C9_ImageExportIsBestEffort ==
    /\ (pc = "image" \/ ImageAttempted) => html_filename \in files
    /\ ImageAttempted =>
          /\ exc = None /\ pc \in {"returned", "exit"}
          /\ screenshot_filename \notin files => ImageFailed
    /\ ImageFailed =>
          /\ ImageAttempted
          /\ exc = None /\ pc \in {"returned", "exit"}
          /\ html_filename \in files
          /\ screenshot_filename \notin files
    /\ (entry = "main" /\ pc = "returned") => ENABLED MainReport
    /\ pc = "exit" => ReportPrinted
    /\ exc = "OSError" =>
          /\ pc = "raised"
          /\ files = {}
          /\ ~ImageAttempted /\ ~ImageFailed /\ ~ReportPrinted
    /\ (pc \in {"returned", "exit"} /\ ~ImageFailed) => screenshot_filename \in files

\* main printed its report after a failed image export
C9_Witness ==
    /\ entry = "main" /\ pc = "exit"
    /\ ImageFailed /\ ReportPrinted
    /\ files = {html_filename}

\* C10: the nodes are the keys, the listed children and the root; the edges are
\* one "depends on" edge per (parent, child) pair and one "direct requirement"
\* edge root->d per key d that is never listed as a child and is not the root;
\* the empty mapping gives the root alone; the build step never raises.
C10_GraphShape ==
    /\ pc = "raised" => Built
    /\ Built =>
          LET pairs == { <<k, c>> \in (DOMAIN dep_data) \X Children(dep_data) :
                            c \in ChildrenOf(dep_data, k) }
              direct == { <<project_name, d>> :
                            d \in { k \in DOMAIN dep_data :
                                      k \notin Children(dep_data) /\ k # project_name } }
          IN  /\ G.nodes = (DOMAIN dep_data) \cup Children(dep_data) \cup {project_name}
              /\ DOMAIN G.edges = pairs \cup direct
              /\ \A e \in pairs : G.edges[e] = "depends on"
              /\ \A e \in direct : G.edges[e] = "direct requirement"
              /\ DOMAIN dep_data = {} => (G.nodes = {project_name} /\ DOMAIN G.edges = {})

\* a cyclic mapping whose root is one of its keys, with a direct requirement edge
C10_Witness ==
    /\ Built
    /\ project_name \in DOMAIN dep_data
    /\ \E e \in DOMAIN G.edges : G.edges[e] = "direct requirement"
    /\ \E e \in DOMAIN G.edges : <<e[2], e[1]>> \in DOMAIN G.edges

\* C11: the marker size follows the tier alone: the root has the largest size,
\* every other member of top_level_deps the medium one, every other node the
\* smallest, largest > medium > smallest, with and without a partition.
C11_SizeByTier ==
    Classified =>
      LET largest == node_attrs[project_name].size
          sizes == { node_attrs[n].size : n \in G.nodes }
      IN  /\ largest = 30
          /\ \A n \in NonRoot :
                /\ node_attrs[n].size < largest
                /\ node_attrs[n].size = IF n \in top_level_deps THEN 20 ELSE 10
          /\ \A n, m \in NonRoot :
                (n \in top_level_deps /\ m \notin top_level_deps)
                   => node_attrs[n].size > node_attrs[m].size
          /\ sizes \subseteq {10, 20, 30}

\* the root is itself in top_level_deps, and two nodes of one community differ in size
C11_Witness ==
    /\ Classified /\ community # None
    /\ project_name \in top_level_deps
    /\ \E n, m \in NonRoot :
          /\ n \in DOMAIN partition /\ m \in DOMAIN partition
          /\ partition[n] = partition[m]
          /\ HasTag(n, "Community") /\ HasTag(m, "Community")
          /\ node_attrs[n].size = 20 /\ node_attrs[m].size = 10

\* the indices of the listed entries that have a package key
Keyed == { i \in 1..Len(tree_list) : tree_list[i].package \notin {NoKey, NullPackage} }

HasKey(d) == d # NoKey

\* the output test_04 feeds, and the mapping it expects
Test04TreeList ==
    << [package |-> "pkg1", dependencies |-> <<"depA", "depB">>],
       [package |-> "depA", dependencies |-> <<>>] >>
Test04ExpectedMap == ("pkg1" :> <<"depA", "depB">>) @@ ("depA" :> <<>>)

\* C12: when the tree tool succeeds (and every listed "package" is an object or
\* absent), the returned mapping has exactly one entry per package key listed,
\* holding the keys of that package's dependencies in order (of the last entry
\* listed under the key); entries and dependencies without a key are skipped, and
\* nothing else is added.
C12_ResolveSuccessMapping ==
    (rpc = "returned" /\ pipdeptree = "ok" /\ ~TransformRaises(tree_list)) =>
      /\ DOMAIN result = { tree_list[i].package : i \in Keyed }
      /\ \A k \in DOMAIN result :
            LET last == CHOOSE i \in Keyed :
                          /\ tree_list[i].package = k
                          /\ \A j \in Keyed : tree_list[j].package = k => j <= i
            IN  result[k] = SelectSeq(tree_list[last].dependencies, HasKey)
      /\ tree_list = Test04TreeList => result = Test04ExpectedMap

\* an entry without a package key and a dependency without a key were skipped
C12_Witness ==
    /\ rpc = "returned" /\ pipdeptree = "ok"
    /\ \E i, j \in 1..Len(tree_list) :
          /\ tree_list[i].package = NoKey
          /\ tree_list[j].package = "pkg1"
          /\ tree_list[j].dependencies = <<"depA", NoKey>>
    /\ result = ("pkg1" :> <<"depA">>)

\* C13: with a partition in use, a non-root node without an entry, and only such a
\* node, falls through to the fallback tiers and is tagged by top_level_deps
\* membership; every non-root node with an entry is tagged Community.
C13_MissingEntryFallsThrough ==
    (Classified /\ community # None) =>
      \A n \in NonRoot :
         /\ n \in DOMAIN partition => TagsOf(n) = {"Community"}
         /\ (n \notin DOMAIN partition /\ n \in top_level_deps)
               => /\ TagsOf(n) = {"DirectDependency"}
                  /\ node_attrs[n].color = DirectColor
         /\ (n \notin DOMAIN partition /\ n \notin top_level_deps)
               => /\ TagsOf(n) = {"TransitiveDependency"}
                  /\ node_attrs[n].color = TransitiveColor

\* a partition with an entry for one non-root node and none for a top-level one
C13_Witness ==
    /\ Classified /\ community # None
    /\ \E n, m \in NonRoot :
          /\ n \notin DOMAIN partition /\ n \in top_level_deps
          /\ HasTag(n, "DirectDependency")
          /\ m \in DOMAIN partition /\ HasTag(m, "Community")

CaughtDetectionException == {"import_raised", "partition_raised", "count_raised"}

\* C14: a node is tagged Community only in runs where the import, best_partition
\* and the community count all completed, so `colors` is bound whenever the loop
\* reads it; after a caught detection exception no node is tagged Community, even
\* when partition already holds entries.
C14_CommunityOnlyAfterFullDetection ==
    /\ exc # "UnboundLocalError"
    /\ (Detected /\ community # None) => (detection = "detected" /\ colors = "Alphabet")
    /\ pc = "classify" =>
          \A n \in G.nodes :
             ~ReadsUnbound(n, project_name, community, partition, colors)
    /\ Classified =>
          \A n \in G.nodes :
             HasTag(n, "Community") => (detection = "detected" /\ colors = "Alphabet")
    /\ (Classified /\ detection \in CaughtDetectionException) =>
          \A n \in G.nodes : ~HasTag(n, "Community")

\* the count raised with the partition filled, and a node with an entry got a
\* fallback tag
C14_Witness ==
    /\ Classified /\ detection = "count_raised"
    /\ \E n \in NonRoot :
          /\ n \in DOMAIN partition
          /\ IsNumber(partition[n])
          /\ node_attrs[n].method = "Depth (Fallback)"

\* C15: main never runs the dependency-tree tool: whatever the project name and
\* the output prefix, the mapping it passes to generate_dependency_graph is
\* MOCK_DEPENDENCY_DATA, returned by __main__'s own resolve_dependencies.
C15_MainAlwaysUsesMockData ==
    entry = "main" =>
      /\ rpc = "idle" /\ pipreqs = "not run" /\ pipdeptree = "not run"
      /\ pc # "main" =>
            /\ dep_data = MOCK_DEPENDENCY_DATA
            /\ stderr # <<>>
            /\ stderr[1] = "--- WARNING: Using MOCK Dependency Data ---"
            /\ html_filename = output_prefix \o ".html"
            /\ screenshot_filename = output_prefix \o "_preview.png"
      /\ Built => G.nodes = (DOMAIN MOCK_DEPENDENCY_DATA) \cup {project_name}

\* a finished run of main with both options away from their defaults
C15_Witness ==
    /\ entry = "main" /\ pc = "exit"
    /\ project_name = "pytest" /\ output_prefix = "report"
    /\ dep_data = MOCK_DEPENDENCY_DATA
    /\ files = {"report.html", "report_preview.png"}

====
